---- MODULE Spec2Model ----
(***************************************************************************)
(* Model of the lanzaboote stub (rust/stub/src/main.rs): the boot-time     *)
(* pipeline of main and the two boot functions boot_linux_unchecked and    *)
(* boot_linux_uefi.  Every firmware call whose outcome main or the boot    *)
(* functions branch on is one step; the firmware's answer is the           *)
(* nondeterministic input of that step.                                    *)
(***************************************************************************)
EXTENDS Integers, Sequences, FiniteSets, TLC

\* ---------------------------------------------------------------- bounds
\* Longest file content (in bytes) read from the boot volume.
MaxLen == 2

\* The values one byte of a file can take.
ByteVals == {0, 1}

\* ------------------------------------------------------------ data types
RECURSIVE SeqsUpTo(_)
SeqsUpTo(n) ==
    IF n = 0 THEN {<<>>}
    ELSE LET shorter == SeqsUpTo(n - 1)
         IN  shorter \cup {Append(s, b) : s \in {t \in shorter : Len(t) = n - 1}, b \in ByteVals}

\* Vec<u8>: the byte strings a file can hold.
Bytes == SeqsUpTo(MaxLen)

\* The kernel and initrd files the boot volume holds in the pipeline runs:
\* the zero-filled files of every length (the pipeline looks at file contents
\* through the digest comparison only, which SpecHash covers for all of Bytes).
VolumeFiles == {s \in Bytes : \A i \in 1 .. Len(s) : s[i] = 0}

RECURSIVE Enc(_)
\* Position of a byte string in the length-then-lexicographic order (>= 1).
Enc(s) == IF s = <<>> THEN 1 ELSE 2 * Enc(SubSeq(s, 1, Len(s) - 1)) + s[Len(s)]

\* Number of distinct digest values: a fixed-width digest, wide enough
\* that the digest is injective on Bytes.
HashSpace == 2 ^ (MaxLen + 1)

\* type Hash = sha2::digest::Output<Sha256>
Hash == 0 .. (HashSpace - 1)

\* Sha256::digest: a fixed-width scrambling of the input, injective on Bytes
\* (multiplication by an odd number is a bijection modulo a power of two).
Sha256_digest(data) == (Enc(data) * 3 + 1) % HashSpace

\* The hashes lzbt can have embedded: the digests of the files it installed.
EmbeddedHashes == {Sha256_digest(f) : f \in VolumeFiles}

\* A digest comparison that looks at one bit of the digest only.
hash_correct_truncated(data, hash) == (Sha256_digest(data) % 2) = (hash % 2)

\* Sha256::digest(&data) == config.<x>_hash
hash_correct(data, hash) == Sha256_digest(data) = hash

\* uefi::Status values the stub can observe.
SUCCESS == "SUCCESS"
StartErrors == {"ABORTED"}
LoadImageErrors == {"SECURITY_VIOLATION", "LOAD_ERROR"}
OpenProtocolErrors == {"UNSUPPORTED"}
InstallErrors == {"OUT_OF_RESOURCES"}
UninstallErrors == {"ACCESS_DENIED"}

\* enum CompanionInitrd, in the order main collects the kinds.
CompanionKinds == <<"Credentials", "GlobalCredentials", "SystemExtension">>

\* The cpio archive pack_cpio produces for a kind (one fixed archive per kind,
\* with bytes that no file on the volume contains, so that order is visible).
Archive(kind) ==
    CASE kind = "Credentials" -> <<2>>
      [] kind = "GlobalCredentials" -> <<3>>
      [] kind = "SystemExtension" -> <<4>>

\* What one pack_cpio call can answer: Ok(Some(archive)), Ok(None), Err(_).
PackResults == {"Some", "None", "Err"}

NoValue == "none"

VARIABLES
    pc,                      \* position in main / the boot function
    config,                  \* EmbeddedConfiguration (the two hashes)
    kernel_data,             \* bytes of the kernel file
    initrd_data,             \* bytes of the initrd file
    is_kernel_hash_correct,
    is_initrd_hash_correct,
    tpm,                     \* answer of tpm_available
    simple_filesystem,       \* answer of the second get_image_file_system
    packed,                  \* answers of the pack_cpio calls made so far
    initrds,                 \* Vec<CompanionInitrd>
    installed,               \* the virtual initrd device is installed
    device_data,             \* <<buffer>> once a device serving buffer was installed
    status,                  \* status of kernel.start / start_image
    ret,                     \* Status returned by main
    trace,                   \* the calls made so far, in order
    \* the stub's own image, as EmbeddedConfiguration::new parses it
    image,                   \* PE section name -> content
    extracted,               \* result of EmbeddedConfiguration::new
    \* lanzatool (pe.rs) on the build host
    stub_binary,             \* the PE stub given to the tool
    inputs,                  \* the other arguments of lanzaboote_image
    overflow_checks,         \* the tool was built with overflow checks
    plan,                    \* result of lanzaboote_image / wrap_initrd
    \* the signing server's policy (policy.rs)
    store,                   \* the store paths that exist
    policy,                  \* TrivialPolicy
    parameters,              \* StubParameters
    verdict                  \* result of trusted_stub_parameters

\* The variables of the stub's boot pipeline.
stubvars == <<pc, config, kernel_data, initrd_data, is_kernel_hash_correct,
              is_initrd_hash_correct, tpm, simple_filesystem, packed, initrds,
              installed, device_data, status, ret, trace>>

\* The variables of the programs that run outside the boot pipeline.
hostvars == <<image, extracted, stub_binary, inputs, overflow_checks, plan,
              store, policy, parameters, verdict>>

vars == <<stubvars, hostvars>>

\* ------------------------------------------------------------- helpers
\* A call of the boot pipeline: it is recorded, and nothing outside the
\* pipeline changes.
Call(name) == trace' = Append(trace, name) /\ UNCHANGED hostvars

Count(name) == Cardinality({i \in 1 .. Len(trace) : trace[i] = name})

\* Index of the first call of that name, 0 when there is none.
First(name) ==
    IF Count(name) = 0 THEN 0
    ELSE CHOOSE i \in 1 .. Len(trace) :
            trace[i] = name /\ \A j \in 1 .. (i - 1) : trace[j] # name

RECURSIVE Concat(_)
\* The archives of a list of companions, one after the other.
Concat(list) ==
    IF list = <<>> THEN <<>>
    ELSE list[1].data \o Concat(SubSeq(list, 2, Len(list)))

\* Nothing outside the boot pipeline is running.
HostIdle ==
    /\ image = NoValue
    /\ extracted = NoValue
    /\ stub_binary = NoValue
    /\ inputs = NoValue
    /\ overflow_checks = NoValue
    /\ plan = NoValue
    /\ store = NoValue
    /\ policy = NoValue
    /\ parameters = NoValue
    /\ verdict = NoValue

\* main has not started.
StubNotStarted ==
    /\ pc = "start"
    /\ config = [kernel_hash |-> 0, initrd_hash |-> 0]
    /\ kernel_data = <<>>
    /\ initrd_data = <<>>
    /\ is_kernel_hash_correct = FALSE
    /\ is_initrd_hash_correct = FALSE
    /\ tpm = FALSE
    /\ simple_filesystem = NoValue
    /\ packed = <<>>
    /\ initrds = <<>>
    /\ installed = FALSE
    /\ device_data = <<>>
    /\ status = NoValue
    /\ ret = NoValue
    /\ trace = <<>>

Init == HostIdle /\ StubNotStarted

\* ------------------------------------------------------------------ main
\* EmbeddedConfiguration::new(booted_image_file(..).unwrap()).expect(..)
main_EmbeddedConfiguration_new ==
    /\ pc = "start"
    /\ \/ \E kh \in EmbeddedHashes, ih \in EmbeddedHashes :
            /\ config' = [kernel_hash |-> kh, initrd_hash |-> ih]
            /\ pc' = "read_kernel"
       \/ /\ pc' = "panic"
          /\ UNCHANGED config
    /\ Call("EmbeddedConfiguration::new")
    /\ UNCHANGED <<kernel_data, initrd_data, is_kernel_hash_correct,
                   is_initrd_hash_correct, tpm, simple_filesystem, packed,
                   initrds, installed,
                   device_data, status, ret>>

\* get_image_file_system, open_volume, open, into_regular_file, read_all of
\* the kernel file: each failure is an expect(..) panic.
main_read_kernel ==
    /\ pc = "read_kernel"
    /\ \/ \E data \in VolumeFiles :
            /\ kernel_data' = data
            /\ pc' = "read_initrd"
       \/ /\ pc' = "panic"
          /\ UNCHANGED kernel_data
    /\ Call("read_all(kernel)")
    /\ UNCHANGED <<config, initrd_data, is_kernel_hash_correct,
                   is_initrd_hash_correct, tpm, simple_filesystem, packed,
                   initrds, installed,
                   device_data, status, ret>>

\* open, into_regular_file, read_all of the initrd file.
main_read_initrd ==
    /\ pc = "read_initrd"
    /\ \/ \E data \in VolumeFiles :
            /\ initrd_data' = data
            /\ pc' = "hash"
       \/ /\ pc' = "panic"
          /\ UNCHANGED initrd_data
    /\ Call("read_all(initrd)")
    /\ UNCHANGED <<config, kernel_data, is_kernel_hash_correct,
                   is_initrd_hash_correct, tpm, simple_filesystem, packed,
                   initrds, installed,
                   device_data, status, ret>>

\* A pipeline that gives up on measurement and companions after a mismatch.
after_hash_check_bail_out(kernel_ok, initrd_ok) ==
    IF kernel_ok /\ initrd_ok THEN "tpm" ELSE "decision"

\* if !is_kernel_hash_correct { warn!(..) } if !is_initrd_hash_correct
\* { warn!(..) }: a mismatch is logged and main goes on.
after_hash_check(kernel_ok, initrd_ok) == "tpm"

\* The two digest comparisons and their warnings.
main_hash_check ==
    /\ pc = "hash"
    /\ is_kernel_hash_correct' = hash_correct(kernel_data, config.kernel_hash)
    /\ is_initrd_hash_correct' = hash_correct(initrd_data, config.initrd_hash)
    /\ pc' = after_hash_check(is_kernel_hash_correct', is_initrd_hash_correct')
    /\ Call("Sha256::digest")
    /\ UNCHANGED <<config, kernel_data, initrd_data, tpm, simple_filesystem,
                   packed, initrds,
                   installed, device_data, status, ret>>

\* if tpm_available(..) { debug!(..) }: the answer only selects a log line.
main_tpm_available ==
    /\ pc = "tpm"
    /\ \E present \in BOOLEAN : tpm' = present
    /\ pc' = "features"
    /\ Call("tpm_available")
    /\ UNCHANGED <<config, kernel_data, initrd_data, is_kernel_hash_correct,
                   is_initrd_hash_correct, simple_filesystem, packed, initrds, installed,
                   device_data, status, ret>>

\* A main that goes from the loader features straight to the export of the
\* EFI variables, without measuring its image.
main_get_loader_features_skips_measure ==
    /\ pc = "features"
    /\ pc' = "export"
    /\ Call("get_loader_features")
    /\ UNCHANGED <<config, kernel_data, initrd_data, is_kernel_hash_correct,
                   is_initrd_hash_correct, tpm, simple_filesystem, packed,
                   initrds, installed,
                   device_data, status, ret>>

\* if let Ok(features) = get_loader_features(..): only a debug line.
main_get_loader_features ==
    /\ pc = "features"
    /\ pc' = "measure"
    /\ Call("get_loader_features")
    /\ UNCHANGED <<config, kernel_data, initrd_data, is_kernel_hash_correct,
                   is_initrd_hash_correct, tpm, simple_filesystem, packed,
                   initrds, installed,
                   device_data, status, ret>>

\* Where main goes after measure_image answered (ok = it returned Ok).
after_measure_image(ok) == IF ok THEN "export" ELSE "panic"

\* measure_image(..).expect("Failed to measure the image")
main_measure_image ==
    /\ pc = "measure"
    /\ \E ok \in BOOLEAN : pc' = after_measure_image(ok)
    /\ Call("measure_image")
    /\ UNCHANGED <<config, kernel_data, initrd_data, is_kernel_hash_correct,
                   is_initrd_hash_correct, tpm, simple_filesystem, packed,
                   initrds, installed,
                   device_data, status, ret>>

\* export_efi_variables(..).expect("Failed to export stub EFI variables")
main_export_efi_variables ==
    /\ pc = "export"
    /\ \E ok \in BOOLEAN : pc' = IF ok THEN "filesystem" ELSE "panic"
    /\ Call("export_efi_variables")
    /\ UNCHANGED <<config, kernel_data, initrd_data, is_kernel_hash_correct,
                   is_initrd_hash_correct, tpm, simple_filesystem, packed,
                   initrds, installed,
                   device_data, status, ret>>

\* if let Ok(mut simple_filesystem) = get_image_file_system(handle)
main_get_image_file_system ==
    /\ pc = "filesystem"
    /\ \E answer \in {"Ok", "Err"} :
          /\ simple_filesystem' = answer
          /\ pc' = IF answer = "Ok" THEN "pack_credentials" ELSE "export_pcr"
    /\ Call("get_image_file_system")
    /\ UNCHANGED <<config, kernel_data, initrd_data, is_kernel_hash_correct,
                   is_initrd_hash_correct, tpm, packed,
                   initrds, installed,
                   device_data, status, ret>>

\* A push that does not look at what pack_cpio answered.
push_companion_always(list, kind, result) ==
    Append(list, [kind |-> kind, data |-> Archive(kind)])

\* if let Ok(Some(x)) = pack_cpio(..) { initrds.push(CompanionInitrd::Kind(x)) }
push_companion(list, kind, result) ==
    IF result = "Some"
    THEN Append(list, [kind |-> kind, data |-> Archive(kind)])
    ELSE list

\* A collection that gives up on the remaining kinds after an Err(_).
pack_cpio_stop_on_error(at, kind, next) ==
    /\ pc = at
    /\ \E result \in PackResults :
          /\ packed' = Append(packed, result)
          /\ initrds' = push_companion(initrds, kind, result)
          /\ pc' = IF result = "Err" THEN "export_pcr" ELSE next
    /\ Call("pack_cpio")
    /\ UNCHANGED <<config, kernel_data, initrd_data, is_kernel_hash_correct,
                   is_initrd_hash_correct, tpm, simple_filesystem, installed,
                   device_data, status, ret>>

pack_cpio(at, kind, next) ==
    /\ pc = at
    /\ \E result \in PackResults :
          /\ packed' = Append(packed, result)
          /\ initrds' = push_companion(initrds, kind, result)
    /\ pc' = next
    /\ Call("pack_cpio")
    /\ UNCHANGED <<config, kernel_data, initrd_data, is_kernel_hash_correct,
                   is_initrd_hash_correct, tpm, simple_filesystem, installed, device_data,
                   status, ret>>

main_pack_credentials ==
    pack_cpio("pack_credentials", CompanionKinds[1], "pack_global_credentials")

main_pack_global_credentials ==
    pack_cpio("pack_global_credentials", CompanionKinds[2], "pack_sysext")

main_pack_sysext ==
    pack_cpio("pack_sysext", CompanionKinds[3], "export_pcr")

\* let _ = initrd::export_pcr_efi_variables(.., initrds): the result is dropped.
main_export_pcr_efi_variables ==
    /\ pc = "export_pcr"
    /\ pc' = "decision"
    /\ Call("export_pcr_efi_variables")
    /\ UNCHANGED <<config, kernel_data, initrd_data, is_kernel_hash_correct,
                   is_initrd_hash_correct, tpm, simple_filesystem, packed,
                   initrds, installed,
                   device_data, status, ret>>

\* The statement after `at` in a function body given as its statements in order.
StatementAfter(order, at) ==
    order[1 + CHOOSE i \in 1 .. (Len(order) - 1) : order[i] = at]

\* A body that starts the kernel before it installs the initrd device.
boot_linux_unchecked_start_first == <<"U_load", "U_start", "U_install", "U_uninstall">>

\* The statements of boot_linux_unchecked, in order.
boot_linux_unchecked_body == <<"U_load", "U_install", "U_start", "U_uninstall">>

\* The statements of boot_linux_uefi, in order.
boot_linux_uefi_body == <<"F_load", "F_open", "F_install", "F_start", "F_uninstall">>

\* A decision that is content with one matching hash.
boot_path_either(kernel_ok, initrd_ok) ==
    IF kernel_ok \/ initrd_ok THEN "boot_linux_unchecked" ELSE "boot_linux_uefi"

\* if is_kernel_hash_correct && is_initrd_hash_correct { .. } else { .. }
boot_path(kernel_ok, initrd_ok) ==
    IF kernel_ok /\ initrd_ok THEN "boot_linux_unchecked" ELSE "boot_linux_uefi"

main_boot_decision ==
    /\ pc = "decision"
    /\ LET path == boot_path(is_kernel_hash_correct, is_initrd_hash_correct)
       IN  /\ Call(path)
           /\ pc' = IF path = "boot_linux_unchecked"
                    THEN boot_linux_unchecked_body[1]
                    ELSE boot_linux_uefi_body[1]
    /\ UNCHANGED <<config, kernel_data, initrd_data, is_kernel_hash_correct,
                   is_initrd_hash_correct, tpm, simple_filesystem, packed,
                   initrds, installed,
                   device_data, status, ret>>

\* -------------------------------------------------- boot_linux_unchecked
\* Image::load(..).expect("Failed to load the kernel")
boot_linux_unchecked_load ==
    /\ pc = "U_load"
    /\ \E ok \in BOOLEAN :
          pc' = IF ok THEN StatementAfter(boot_linux_unchecked_body, "U_load") ELSE "panic"
    /\ Call("Image::load")
    /\ UNCHANGED <<config, kernel_data, initrd_data, is_kernel_hash_correct,
                   is_initrd_hash_correct, tpm, simple_filesystem, packed,
                   initrds, installed,
                   device_data, status, ret>>

\* The buffer main hands to the boot function as initrd_data.
initrd_buffer(initrd, companions) == initrd

\* An install whose failure is swallowed: the function goes on without a device.
InitrdLoader_new_failure_ignored(at, next) ==
    /\ pc = at
    /\ \/ /\ installed' = TRUE
          /\ device_data' = <<initrd_buffer(initrd_data, initrds)>>
       \/ UNCHANGED <<installed, device_data>>
    /\ pc' = next
    /\ Call("InitrdLoader::new")
    /\ UNCHANGED <<config, kernel_data, initrd_data, is_kernel_hash_correct,
                   is_initrd_hash_correct, tpm, simple_filesystem, packed,
                   initrds, status, ret>>

\* InitrdLoader::new(boot_services, handle, initrd_data)?
InitrdLoader_new(at, next) ==
    /\ pc = at
    /\ \/ /\ installed' = TRUE
          /\ device_data' = <<initrd_buffer(initrd_data, initrds)>>
          /\ pc' = next
          /\ UNCHANGED ret
       \/ \E e \in InstallErrors :
            /\ ret' = e
            /\ pc' = "returned"
            /\ UNCHANGED <<installed, device_data>>
    /\ Call("InitrdLoader::new")
    /\ UNCHANGED <<config, kernel_data, initrd_data, is_kernel_hash_correct,
                   is_initrd_hash_correct, tpm, simple_filesystem, packed,
                   initrds, status>>

boot_linux_unchecked_install ==
    InitrdLoader_new("U_install", StatementAfter(boot_linux_unchecked_body, "U_install"))

\* A start whose error status is returned at once (status? before uninstall).
kernel_start_early_return(at, next, name) ==
    /\ pc = at
    /\ \E s \in {SUCCESS} \cup StartErrors :
          /\ status' = s
          /\ IF s = SUCCESS
             THEN pc' = next /\ UNCHANGED ret
             ELSE pc' = "returned" /\ ret' = s
    /\ Call(name)
    /\ UNCHANGED <<config, kernel_data, initrd_data, is_kernel_hash_correct,
                   is_initrd_hash_correct, tpm, simple_filesystem, packed,
                   initrds, installed,
                   device_data>>

\* let status = kernel.start(..) / start_image(kernel_handle).status():
\* control comes back with a status, whatever it is.
kernel_start(at, next, name) ==
    /\ pc = at
    /\ \E s \in {SUCCESS} \cup StartErrors : status' = s
    /\ pc' = next
    /\ Call(name)
    /\ UNCHANGED <<config, kernel_data, initrd_data, is_kernel_hash_correct,
                   is_initrd_hash_correct, tpm, simple_filesystem, packed,
                   initrds, installed,
                   device_data, ret>>

boot_linux_unchecked_start ==
    kernel_start("U_start", StatementAfter(boot_linux_unchecked_body, "U_start"), "kernel.start")

\* initrd_loader.uninstall(boot_services)?; status.into()
InitrdLoader_uninstall(at) ==
    /\ pc = at
    /\ \/ /\ installed' = FALSE
          /\ ret' = status
       \/ \E e \in UninstallErrors :
            /\ ret' = e
            /\ UNCHANGED installed
    /\ pc' = "returned"
    /\ Call("uninstall")
    /\ UNCHANGED <<config, kernel_data, initrd_data, is_kernel_hash_correct,
                   is_initrd_hash_correct, tpm, simple_filesystem, packed,
                   initrds, device_data,
                   status>>

boot_linux_unchecked_uninstall == InitrdLoader_uninstall("U_uninstall")

\* ------------------------------------------------------- boot_linux_uefi
\* A fallback path that goes on when the firmware has rejected the kernel.
boot_linux_uefi_load_image_error_ignored ==
    /\ pc = "F_load"
    /\ pc' = StatementAfter(boot_linux_uefi_body, "F_load")
    /\ \/ UNCHANGED ret
       \/ \E e \in LoadImageErrors : ret' = e
    /\ Call("load_image")
    /\ UNCHANGED <<config, kernel_data, initrd_data, is_kernel_hash_correct,
                   is_initrd_hash_correct, tpm, simple_filesystem, packed,
                   initrds, installed,
                   device_data, status>>

\* boot_services().load_image(handle, FromBuffer { kernel_data })?
boot_linux_uefi_load_image ==
    /\ pc = "F_load"
    /\ \/ /\ pc' = StatementAfter(boot_linux_uefi_body, "F_load")
          /\ UNCHANGED ret
       \/ \E e \in LoadImageErrors :
            /\ ret' = e
            /\ pc' = "returned"
    /\ Call("load_image")
    /\ UNCHANGED <<config, kernel_data, initrd_data, is_kernel_hash_correct,
                   is_initrd_hash_correct, tpm, simple_filesystem, packed,
                   initrds, installed,
                   device_data, status>>

\* open_protocol_exclusive::<LoadedImage>(kernel_handle)?; set_load_options(..)
boot_linux_uefi_open_protocol ==
    /\ pc = "F_open"
    /\ \/ /\ pc' = StatementAfter(boot_linux_uefi_body, "F_open")
          /\ UNCHANGED ret
       \/ \E e \in OpenProtocolErrors :
            /\ ret' = e
            /\ pc' = "returned"
    /\ Call("open_protocol_exclusive")
    /\ UNCHANGED <<config, kernel_data, initrd_data, is_kernel_hash_correct,
                   is_initrd_hash_correct, tpm, simple_filesystem, packed,
                   initrds, installed,
                   device_data, status>>

boot_linux_uefi_install ==
    InitrdLoader_new("F_install", StatementAfter(boot_linux_uefi_body, "F_install"))

boot_linux_uefi_start ==
    kernel_start("F_start", StatementAfter(boot_linux_uefi_body, "F_start"), "start_image")

boot_linux_uefi_uninstall == InitrdLoader_uninstall("F_uninstall")

\* ------------------------------------------------------- specification
Next ==
    \/ main_EmbeddedConfiguration_new
    \/ main_read_kernel
    \/ main_read_initrd
    \/ main_hash_check
    \/ main_tpm_available
    \/ main_get_loader_features
    \/ main_measure_image
    \/ main_export_efi_variables
    \/ main_get_image_file_system
    \/ main_pack_credentials
    \/ main_pack_global_credentials
    \/ main_pack_sysext
    \/ main_export_pcr_efi_variables
    \/ main_boot_decision
    \/ boot_linux_unchecked_load
    \/ boot_linux_unchecked_install
    \/ boot_linux_unchecked_start
    \/ boot_linux_unchecked_uninstall
    \/ boot_linux_uefi_load_image
    \/ boot_linux_uefi_open_protocol
    \/ boot_linux_uefi_install
    \/ boot_linux_uefi_start
    \/ boot_linux_uefi_uninstall

Spec == Init /\ [][Next]_vars

\* The digest comparison of main on its own, for every pair of files and
\* every pair of embedded hashes: main as it stands before line 238.
InitHash ==
    /\ HostIdle
    /\ pc = "hash"
    /\ config \in [kernel_hash : Hash, initrd_hash : Hash]
    /\ kernel_data \in Bytes
    /\ initrd_data \in Bytes
    /\ is_kernel_hash_correct = FALSE
    /\ is_initrd_hash_correct = FALSE
    /\ tpm = FALSE
    /\ simple_filesystem = NoValue
    /\ packed = <<>>
    /\ initrds = <<>>
    /\ installed = FALSE
    /\ device_data = <<>>
    /\ status = NoValue
    /\ ret = NoValue
    /\ trace = <<"EmbeddedConfiguration::new", "read_all(kernel)", "read_all(initrd)">>

NextHash == main_hash_check

SpecHash == InitHash /\ [][NextHash]_vars

\* ------------------------------------------- EmbeddedConfiguration::new
\* The length of a digest section: `let array: [u8; 32]`.
HashLen == 32

INVALID_PARAMETER == "INVALID_PARAMETER"

\* Bytes and characters of a section that matter to the extraction: a byte
\* that is no UTF-8, a character outside UCS-2, and the NUL character.
InvalidUtf8 == "0xFF"
NonUcs2 == "U+1F600"
NUL == "NUL"

\* The sections EmbeddedConfiguration::new can be asked about.
SectionNames == {".osrel", ".cmdline", ".initrdp", ".kernelp", ".kernelh", ".initrdh"}
StringSections == {".osrel", ".cmdline", ".initrdp", ".kernelp"}

\* Option<&[u8]> / Option<String>: a section's content, or None.
None == [present |-> FALSE, data |-> <<>>]
Some(d) == [present |-> TRUE, data |-> d]

\* uefi::Result
Ok(v) == [kind |-> "Ok", value |-> v]
Err(e) == [kind |-> "Err", value |-> e]
NotRun == [kind |-> "NotRun", value |-> NoValue]

\* n zero bytes.
Zeros(n) == [i \in 1 .. n |-> 0]

\* pe_section: the content of the named section, None without such a section.
pe_section(pe_data, section) == pe_data[section]

\* pe_section_as_string: the section as a string; None without such a
\* section or when its bytes are no UTF-8.
pe_section_as_string(pe_data, section) ==
    LET found == pe_section(pe_data, section)
    IN  IF found.present /\ \A i \in 1 .. Len(found.data) : found.data[i] # InvalidUtf8
        THEN found
        ELSE None

\* CString16::try_from(&str): the UCS-2 units and a terminating NUL; an error
\* for a character outside UCS-2 or a NUL inside the string.
CString16_try_from(string) ==
    IF \E i \in 1 .. Len(string) : string[i] \in {NonUcs2, NUL}
    THEN Err("FromStrError")
    ELSE Ok(Append(string, NUL))

\* fn extract_string
extract_string(pe_data, section) ==
    LET string == pe_section_as_string(pe_data, section)
    IN  IF ~string.present THEN Err(INVALID_PARAMETER)
        ELSE LET wide == CString16_try_from(string.data)
             IN  IF wide.kind = "Err" THEN Err(INVALID_PARAMETER) ELSE wide

\* A digest extraction that takes the first 32 bytes of a longer section.
extract_hash_prefix(pe_data, section) ==
    LET found == pe_section(pe_data, section)
    IN  IF ~found.present THEN Err(INVALID_PARAMETER)
        ELSE IF Len(found.data) < HashLen THEN Err(INVALID_PARAMETER)
        ELSE Ok(SubSeq(found.data, 1, HashLen))

\* fn extract_hash
extract_hash(pe_data, section) ==
    LET found == pe_section(pe_data, section)
    IN  IF ~found.present THEN Err(INVALID_PARAMETER)
        ELSE IF Len(found.data) # HashLen THEN Err(INVALID_PARAMETER)
        ELSE Ok(found.data)

\* EmbeddedConfiguration::new: the five fields in the order of the struct
\* literal, each `?` returning the first error.
EmbeddedConfiguration_new(file_data) ==
    LET kernel_filename == extract_string(file_data, ".kernelp")
        kernel_hash == extract_hash(file_data, ".kernelh")
        initrd_filename == extract_string(file_data, ".initrdp")
        initrd_hash == extract_hash(file_data, ".initrdh")
        cmdline == extract_string(file_data, ".cmdline")
    IN  IF kernel_filename.kind = "Err" THEN kernel_filename
        ELSE IF kernel_hash.kind = "Err" THEN kernel_hash
        ELSE IF initrd_filename.kind = "Err" THEN initrd_filename
        ELSE IF initrd_hash.kind = "Err" THEN initrd_hash
        ELSE IF cmdline.kind = "Err" THEN cmdline
        ELSE Ok([kernel_filename |-> kernel_filename.value,
                 kernel_hash |-> kernel_hash.value,
                 initrd_filename |-> initrd_filename.value,
                 initrd_hash |-> initrd_hash.value,
                 cmdline |-> cmdline.value])

\* The stub parses the image it was booted from.
stub_EmbeddedConfiguration_new ==
    /\ extracted.kind = "NotRun"
    /\ extracted' = EmbeddedConfiguration_new(image)
    /\ UNCHANGED <<stubvars, image, stub_binary, inputs, overflow_checks, plan,
                   store, policy, parameters, verdict>>

\* What a text section of an image can hold.
StringContents == {None, Some(<<"a">>), Some(<<InvalidUtf8>>), Some(<<NonUcs2>>)}

\* What a digest section of an image can hold.
HashContents ==
    {None, Some(Zeros(HashLen - 1)), Some(Zeros(HashLen)), Some(Zeros(HashLen + 1))}

\* Every image over these contents.
Images ==
    {[n \in SectionNames |->
        CASE n = ".osrel" -> osrel
          [] n = ".cmdline" -> cmdline
          [] n = ".initrdp" -> initrdp
          [] n = ".kernelp" -> kernelp
          [] n = ".kernelh" -> kernelh
          [] n = ".initrdh" -> initrdh] :
        osrel \in StringContents, cmdline \in StringContents,
        initrdp \in StringContents, kernelp \in StringContents,
        kernelh \in HashContents, initrdh \in HashContents}

\* EmbeddedConfiguration::new on its own, for every image.
InitConfig ==
    /\ StubNotStarted
    /\ image \in Images
    /\ extracted = NotRun
    /\ stub_binary = NoValue
    /\ inputs = NoValue
    /\ overflow_checks = NoValue
    /\ plan = NoValue
    /\ store = NoValue
    /\ policy = NoValue
    /\ parameters = NoValue
    /\ verdict = NoValue

NextConfig == stub_EmbeddedConfiguration_new

SpecConfig == InitConfig /\ [][NextConfig]_vars

\* ------------------------------------------------------- lanzatool: pe.rs
\* The widths of the tool's integers, scaled down: a u32 of AddrBits bits and
\* a u64 of twice as many.
AddrBits == 2
U32 == 2 ^ AddrBits
U64 == 2 ^ (2 * AddrBits)

\* The longest kernel command line of the inputs, in items.
MaxTokens == 2

\* A panic of the tool (a failed expect, an overflow caught by the build).
Panic(e) == [kind |-> "Panic", value |-> e]

\* `a + b` in an integer type of the given size: a panic in a build with
\* overflow checks, the wrapped sum in a build without.
add(a, b, size, checks) ==
    IF a + b < size THEN Ok(a + b)
    ELSE IF checks THEN Panic("attempt to add with overflow")
    ELSE Ok((a + b) % size)

\* A file of the build host: whether it can be opened, and its bytes.
File(contents) == [exists |-> TRUE, contents |-> contents]
MissingFile == [exists |-> FALSE, contents |-> <<>>]

\* fn image_base
image_base(pe) ==
    IF ~pe.optional_header
    THEN Panic("Failed to find optional header, you're fucked")
    ELSE Ok(pe.image_base)

\* fn stub_offset
stub_offset(binary, checks) ==
    IF binary.file = "unreadable" THEN Err("Failed to read PE binary file")
    ELSE IF binary.file = "not_pe" THEN Err("Failed to parse PE binary file")
    ELSE LET base == image_base(binary)
         IN  IF base.kind = "Panic" THEN base
             ELSE IF binary.sections = <<>> THEN Panic("Failed to calculate offset")
             ELSE LET last == binary.sections[Len(binary.sections)]
                      end == add(last.virtual_size, last.virtual_address, U32, checks)
                  IN  IF end.kind = "Panic" THEN end
                      ELSE add(end.value, base.value, U64, checks)

\* fn file_size
file_size(file) ==
    IF file.exists THEN Ok(Len(file.contents)) ELSE Err("No such file or directory")

\* fn write_to_tmp
write_to_tmp(contents, io) ==
    IF io = "tmp_fails" THEN Err("Failed to create tempfile") ELSE Ok(File(contents))

\* [String]::join and Path's components put together with a separator.
RECURSIVE join(_, _)
join(items, sep) ==
    IF items = <<>> THEN <<>>
    ELSE IF Len(items) = 1 THEN items[1]
    ELSE items[1] \o sep \o join(Tail(items), sep)

\* str::replace of one character by another.
replace(string, from, to) ==
    [i \in 1 .. Len(string) |-> IF string[i] = from THEN to ELSE string[i]]

\* Path::strip_prefix
strip_prefix(path, base) ==
    IF Len(base) <= Len(path) /\ SubSeq(path, 1, Len(base)) = base
    THEN Ok(SubSeq(path, Len(base) + 1, Len(path)))
    ELSE Err("StripPrefixError")

\* fn esp_relative_path_string
esp_relative_path_string(esp, path) ==
    LET relative_path == strip_prefix(path, esp)
    IN  IF relative_path.kind = "Err"
        THEN Panic("Failed to make path relative to esp")
        ELSE Ok(<<"\\">> \o replace(join(relative_path.value, <<"/">>), "/", "\\"))

\* fn s
s(name, file_path, offset) == [name |-> name, file_path |-> file_path, offset |-> offset]

\* format!("{:#x}", offset)
HexDigits == <<"0", "1", "2", "3", "4", "5", "6", "7",
               "8", "9", "a", "b", "c", "d", "e", "f">>

RECURSIVE hex(_)
hex(n) ==
    IF n < 16 THEN <<HexDigits[n + 1]>>
    ELSE Append(hex(n \div 16), HexDigits[(n % 16) + 1])

\* Section::to_objcopy
to_objcopy(section) ==
    << <<"--add-section", section.name, section.file_path>>,
       <<"--change-section-vma", section.name, <<"0", "x">> \o hex(section.offset)>> >>

\* sections.iter().flat_map(Section::to_objcopy).collect()
RECURSIVE flat_map_to_objcopy(_)
flat_map_to_objcopy(sections) ==
    IF sections = <<>> THEN <<>>
    ELSE to_objcopy(sections[1]) \o flat_map_to_objcopy(Tail(sections))

\* The sections an image is asked about: those of the stub's configuration and
\* the one of a wrapped initrd.
ImageSections == SectionNames \cup {".initrd"}

\* What objcopy writes: the stub (which has none of these sections) with the
\* content of the named file under every name of an --add-section argument.
objcopy(args) ==
    [n \in ImageSections |->
        IF \E i \in 1 .. Len(args) : args[i][1] = "--add-section" /\ args[i][2] = n
        THEN LET i == CHOOSE i \in 1 .. Len(args) :
                          args[i][1] = "--add-section" /\ args[i][2] = n
             IN  Some(args[i][3].contents)
        ELSE None]

\* What one of the two entry points left behind: its result, the sections it
\* planned, and the arguments it ran objcopy with.
Outcome(mode, result, sections, args) ==
    [kind |-> result.kind, value |-> result.value, mode |-> mode,
     sections |-> sections, args |-> args]

\* fn wrap_in_pe
wrap_in_pe(mode, sections, io) ==
    LET args == flat_map_to_objcopy(sections)
    IN  IF io = "tmp_fails"
        THEN Outcome(mode, Err("Failed to generate named temp file"), sections, <<>>)
        ELSE IF io = "objcopy_fails"
        THEN Outcome(mode, Err("Failed to wrap in pe"), sections, args)
        ELSE Outcome(mode, Ok("persistent_image"), sections, args)

\* pub fn lanzaboote_image
lanzaboote_image(lanzaboote_stub, os_release, kernel_cmdline, kernel_path, initrd_path, esp, io, checks) ==
    LET Stop(result) == Outcome("stub", result, <<>>, <<>>)
        kernel_cmdline_file == write_to_tmp(join(kernel_cmdline, <<" ">>), io)
        kernel_path_string == esp_relative_path_string(esp, kernel_path)
        kernel_path_file == write_to_tmp(kernel_path_string.value, io)
        initrd_path_string == esp_relative_path_string(esp, initrd_path)
        initrd_path_file == write_to_tmp(initrd_path_string.value, io)
        os_release_offs == stub_offset(lanzaboote_stub, checks)
        os_release_size == file_size(os_release)
        kernel_cmdline_offs ==
            add(os_release_offs.value, os_release_size.value, U64, checks)
        initrd_path_offs ==
            add(kernel_cmdline_offs.value,
                file_size(kernel_cmdline_file.value).value, U64, checks)
        kernel_path_offs ==
            add(initrd_path_offs.value,
                file_size(initrd_path_file.value).value, U64, checks)
        sections ==
            <<s(".osrel", os_release, os_release_offs.value),
              s(".cmdline", kernel_cmdline_file.value, kernel_cmdline_offs.value),
              s(".initrdp", initrd_path_file.value, initrd_path_offs.value),
              s(".kernelp", kernel_path_file.value, kernel_path_offs.value)>>
    IN  IF kernel_cmdline_file.kind # "Ok" THEN Stop(kernel_cmdline_file)
        ELSE IF kernel_path_string.kind # "Ok" THEN Stop(kernel_path_string)
        ELSE IF kernel_path_file.kind # "Ok" THEN Stop(kernel_path_file)
        ELSE IF initrd_path_string.kind # "Ok" THEN Stop(initrd_path_string)
        ELSE IF initrd_path_file.kind # "Ok" THEN Stop(initrd_path_file)
        ELSE IF os_release_offs.kind # "Ok" THEN Stop(os_release_offs)
        ELSE IF os_release_size.kind # "Ok" THEN Stop(os_release_size)
        ELSE IF kernel_cmdline_offs.kind # "Ok" THEN Stop(kernel_cmdline_offs)
        ELSE IF initrd_path_offs.kind # "Ok" THEN Stop(initrd_path_offs)
        ELSE IF kernel_path_offs.kind # "Ok" THEN Stop(kernel_path_offs)
        ELSE wrap_in_pe("stub", sections, io)

\* pub fn wrap_initrd
wrap_initrd(initrd_stub, initrd, io, checks) ==
    LET initrd_offs == stub_offset(initrd_stub, checks)
    IN  IF initrd_offs.kind # "Ok"
        THEN Outcome("initrd-wrapper", initrd_offs, <<>>, <<>>)
        ELSE wrap_in_pe("initrd-wrapper", <<s(".initrd", initrd, initrd_offs.value)>>, io)

\* The file an image was written to, when one was.
written(outcome) == IF outcome.kind = "Ok" THEN objcopy(outcome.args) ELSE image

\* The tool wraps the stub with the configuration of one generation.
tool_lanzaboote_image ==
    /\ plan.kind = "NotRun"
    /\ plan' = lanzaboote_image(stub_binary, inputs.os_release, inputs.kernel_cmdline,
                                inputs.kernel_path, inputs.initrd_path, inputs.esp,
                                inputs.io, overflow_checks)
    /\ image' = written(plan')
    /\ UNCHANGED <<stubvars, extracted, stub_binary, inputs, overflow_checks,
                   store, policy, parameters, verdict>>

\* The tool wraps an initrd.
tool_wrap_initrd ==
    /\ plan.kind = "NotRun"
    /\ plan' = wrap_initrd(stub_binary, inputs.initrd, inputs.io, overflow_checks)
    /\ image' = written(plan')
    /\ UNCHANGED <<stubvars, extracted, stub_binary, inputs, overflow_checks,
                   store, policy, parameters, verdict>>

\* The firmware starts the image lanzaboote_image has written.
boot_lanzaboote_image ==
    /\ plan.kind = "Ok"
    /\ plan.mode = "stub"
    /\ stub_EmbeddedConfiguration_new

\* A section of a stub binary, and the section tables of the stub binaries.
SectionHeaders ==
    [virtual_address : {0, U32 - 1}, virtual_size : {1, U32 - 1}]

SectionTables ==
    {<<>>} \cup {<<a>> : a \in SectionHeaders}
           \cup {<<a, b>> : a \in SectionHeaders, b \in SectionHeaders}

\* The stub binaries: a file that cannot be read, one that is no PE, and PE
\* files with and without an optional header.
StubBinaries ==
    {[file |-> f, optional_header |-> FALSE, image_base |-> 0, sections |-> <<>>] :
        f \in {"unreadable", "not_pe"}}
    \cup [file : {"pe"}, optional_header : {FALSE}, image_base : {0},
          sections : SectionTables]
    \cup [file : {"pe"}, optional_header : {TRUE}, image_base : {1, U64 - 2},
          sections : SectionTables]

\* The items of a kernel command line, and the command lines.
Items == {<<"a">>, <<"b", "c">>}
CommandLines == UNION {[1 .. n -> Items] : n \in 0 .. MaxTokens}

\* The ESP and paths inside and outside of it.
Esp == << <<"e">> >>
KernelPaths == {<< <<"e">>, <<"k">> >>, << <<"x">>, <<"k">> >>}
InitrdPaths == {<< <<"e">>, <<"d">>, <<"i">> >>, << <<"x">>, <<"i">> >>}

\* What the tool is called with, and what the host does to its temporary
\* files and to objcopy.
ToolInputs ==
    [os_release : {MissingFile, File(<<>>), File(<<"o">>)},
     kernel_cmdline : CommandLines,
     kernel_path : KernelPaths,
     initrd_path : InitrdPaths,
     esp : {Esp},
     initrd : {File(<<"i", "i">>)},
     io : {"ok", "tmp_fails", "objcopy_fails"}]

\* No image has been written yet.
NoImage == [n \in ImageSections |-> None]

\* Nothing has been planned yet.
NotPlanned == Outcome("none", NotRun, <<>>, <<>>)

\* The tool and the boot of what it wrote.
InitTool ==
    /\ StubNotStarted
    /\ image = NoImage
    /\ extracted = NotRun
    /\ stub_binary \in StubBinaries
    /\ inputs \in ToolInputs
    /\ overflow_checks \in BOOLEAN
    /\ plan = NotPlanned
    /\ store = NoValue
    /\ policy = NoValue
    /\ parameters = NoValue
    /\ verdict = NoValue

NextTool == tool_lanzaboote_image \/ tool_wrap_initrd \/ boot_lanzaboote_image

SpecTool == InitTool /\ [][NextTool]_vars

\* ------------------------------------------------ signing server: policy.rs
\* Option<HashSet<String>>: the allow-list of a TrivialPolicy.
NoAllowList == [present |-> FALSE, data |-> {}]
AllowList(set) == [present |-> TRUE, data |-> set]

\* fn trusted_store_path: the path exists.
trusted_store_path(fs, store_path) == store_path \in fs

\* A loop that takes an empty allow-list for no restriction.
items_allowed_empty_is_unrestricted(allowed_cmdline_items, kernel_cmdline) ==
    \/ allowed_cmdline_items = {}
    \/ \A i \in 1 .. Len(kernel_cmdline) : kernel_cmdline[i] \in allowed_cmdline_items

\* `for item in &parameters.kernel_cmdline`: false at the first item the
\* allow-list does not contain.
RECURSIVE items_allowed(_, _)
items_allowed(allowed_cmdline_items, kernel_cmdline) ==
    IF kernel_cmdline = <<>> THEN TRUE
    ELSE IF Head(kernel_cmdline) \notin allowed_cmdline_items THEN FALSE
    ELSE items_allowed(allowed_cmdline_items, Tail(kernel_cmdline))

\* A decision that does not look at the initrd store path.
trusted_stub_parameters_skips_initrd(self, fs, params) ==
    IF \/ ~trusted_store_path(fs, params.lanzaboote_store_path)
       \/ ~trusted_store_path(fs, params.kernel_store_path)
    THEN FALSE
    ELSE IF self.present /\ ~items_allowed(self.data, params.kernel_cmdline)
    THEN FALSE
    ELSE TRUE

\* fn trusted_stub_parameters
trusted_stub_parameters(self, fs, params) ==
    IF \/ ~trusted_store_path(fs, params.lanzaboote_store_path)
       \/ ~trusted_store_path(fs, params.kernel_store_path)
       \/ ~trusted_store_path(fs, params.initrd_store_path)
    THEN FALSE
    ELSE IF self.present /\ ~items_allowed(self.data, params.kernel_cmdline)
    THEN FALSE
    ELSE TRUE

\* The server asks its policy about the parameters of a stub.
policy_trusted_stub_parameters ==
    /\ verdict.kind = "NotRun"
    /\ verdict' = Ok(trusted_stub_parameters(policy, store, parameters))
    /\ UNCHANGED <<stubvars, image, extracted, stub_binary, inputs, overflow_checks,
                   plan, store, policy, parameters>>

\* Store paths, and the items of command lines and allow-lists.
StorePaths == {"/nix/store/a", "/nix/store/b"}
CmdlineItems == {"quiet", "debug"}

\* The policies: no allow-list, or any allow-list over the items.
Policies == {NoAllowList} \cup {AllowList(set) : set \in SUBSET CmdlineItems}

\* The parameters of a stub.
StubParameters ==
    [lanzaboote_store_path : StorePaths,
     kernel_store_path : StorePaths,
     initrd_store_path : StorePaths,
     kernel_cmdline : UNION {[1 .. n -> CmdlineItems] : n \in 0 .. MaxTokens}]

\* One decision of the policy, for every store, policy and parameters.
InitPolicy ==
    /\ StubNotStarted
    /\ image = NoValue
    /\ extracted = NoValue
    /\ stub_binary = NoValue
    /\ inputs = NoValue
    /\ overflow_checks = NoValue
    /\ plan = NoValue
    /\ store \in SUBSET StorePaths
    /\ policy \in Policies
    /\ parameters \in StubParameters
    /\ verdict = NotRun

NextPolicy == policy_trusted_stub_parameters

SpecPolicy == InitPolicy /\ [][NextPolicy]_vars

TypeOK ==
    /\ packed \in UNION {[1 .. n -> PackResults] : n \in 0 .. 3}
    /\ Len(initrds) <= Len(packed)
    /\ installed \in BOOLEAN
    /\ Len(device_data) <= 1
    /\ kernel_data \in Bytes /\ initrd_data \in Bytes
    /\ config.kernel_hash \in Hash /\ config.initrd_hash \in Hash

\* ------------------------------------------------- vocabulary of the claims
Called(name) == Count(name) > 0

\* main has taken the boot decision (it has entered one of the boot functions).
Decided == Called("boot_linux_unchecked") \/ Called("boot_linux_uefi")

\* The kernel image load of the path taken, and the control transfer of it.
LoadCalls == Count("Image::load") + Count("load_image")
StartCalls == Count("kernel.start") + Count("start_image")
FirstLoad == First("Image::load") + First("load_image")
FirstStart == First("kernel.start") + First("start_image")

\* A device was installed at some point of this boot.
EverInstalled == device_data # <<>>

\* The boot function has returned to main (and main to the firmware).
Returned == pc = "returned"

\* The install of the initrd device was attempted and failed.
InstallFailed == Called("InitrdLoader::new") /\ ~EverInstalled

\* The call the pipeline made last.
LastCall == trace[Len(trace)]

C3_BootDecision ==
    /\ Count("boot_linux_unchecked") + Count("boot_linux_uefi") <= 1
    /\ (pc \in {"U_load", "U_install", "U_start", "U_uninstall", "F_load",
                "F_open", "F_install", "F_start", "F_uninstall", "returned"})
          => Decided
    /\ Decided =>
          /\ Called("boot_linux_unchecked")
                <=> (is_kernel_hash_correct /\ is_initrd_hash_correct)
          /\ Called("boot_linux_uefi")
                <=> (~is_kernel_hash_correct \/ ~is_initrd_hash_correct)
    /\ Called("boot_linux_unchecked") =>
          /\ Sha256_digest(kernel_data) = config.kernel_hash
          /\ Sha256_digest(initrd_data) = config.initrd_hash
    /\ (LoadCalls > 0 \/ Called("InitrdLoader::new") \/ StartCalls > 0) => Decided

\* The unchecked path was entered with both hashes matching.
C3_Witness ==
    /\ pc = "U_load"
    /\ Called("boot_linux_unchecked")
    /\ is_kernel_hash_correct /\ is_initrd_hash_correct

\* -------------------------------------------------------------------- C4
\* C4: after the comparison, kernel_ok says exactly whether the digest of the
\* kernel bytes is the embedded kernel hash, and initrd_ok the same for the
\* initrd; each depends on its own artifact only, and bytes that differ from
\* the bytes the embedded hash was computed from give false.
C4_HashBinding ==
    Called("Sha256::digest") =>
        /\ is_kernel_hash_correct = (Sha256_digest(kernel_data) = config.kernel_hash)
        /\ is_initrd_hash_correct = (Sha256_digest(initrd_data) = config.initrd_hash)
        /\ \A K \in Bytes :
              (config.kernel_hash = Sha256_digest(K) /\ kernel_data # K)
                  => ~is_kernel_hash_correct
        /\ \A I \in Bytes :
              (config.initrd_hash = Sha256_digest(I) /\ initrd_data # I)
                  => ~is_initrd_hash_correct

\* A kernel that differs in one byte from the hashed one is reported, while
\* the untouched initrd still verifies.
C4_Witness ==
    /\ Called("Sha256::digest")
    /\ \E K \in Bytes :
          /\ config.kernel_hash = Sha256_digest(K)
          /\ Len(K) = Len(kernel_data) /\ K # kernel_data
    /\ ~is_kernel_hash_correct
    /\ is_initrd_hash_correct

\* -------------------------------------------------------------------- C5
\* C5: whatever the two hash comparisons said, by the time main takes the
\* boot decision it has called measure_image once, exported the variables,
\* and made the three pack_cpio attempts (all three whenever the file system
\* could be opened, as with matching hashes); with a tampered initrd and a
\* good kernel the fallback path is the one taken.
C5_MismatchKeepsPipeline ==
    (pc = "decision" \/ Decided) =>
        /\ Count("measure_image") = 1
        /\ Count("export_efi_variables") = 1
        /\ Count("get_image_file_system") = 1
        /\ Count("pack_cpio") = (IF simple_filesystem = "Ok" THEN 3 ELSE 0)
        /\ Len(packed) = Count("pack_cpio")
        /\ Count("export_pcr_efi_variables") = 1
        /\ (Decided /\ is_kernel_hash_correct /\ ~is_initrd_hash_correct)
              => Called("boot_linux_uefi")

\* Tampered initrd, good kernel: measured, three attempts made, fallback taken.
C5_Witness ==
    /\ Called("boot_linux_uefi")
    /\ is_kernel_hash_correct /\ ~is_initrd_hash_correct
    /\ Count("measure_image") = 1
    /\ Count("pack_cpio") = 3

\* -------------------------------------------------------------------- C6
\* C6: the buffer the initrd device serves is the initrd bytes read from the
\* volume followed by the archives of the collected companions, in
\* collection order.
C6_InitrdAssembly ==
    EverInstalled => device_data[1] = initrd_data \o Concat(initrds)

\* -------------------------------------------------------------------- C7
\* C7: when all three pack_cpio calls answered Ok(None), no companion is
\* collected, main goes on to the boot decision without failing, and the
\* buffer given to the initrd device is exactly the initrd bytes read from
\* the volume.
C7_NoCompanions ==
    (Len(packed) = 3 /\ \A i \in 1 .. 3 : packed[i] = "None") =>
        /\ initrds = <<>>
        /\ pc \in {"export_pcr", "decision"} \/ Decided
        /\ EverInstalled => device_data = <<initrd_data>>

\* No companion on the volume, and the device serves the initrd alone.
C7_Witness ==
    /\ Len(packed) = 3 /\ \A i \in 1 .. 3 : packed[i] = "None"
    /\ installed
    /\ device_data = <<initrd_data>>
    /\ initrds = <<>>

\* -------------------------------------------------------------------- C8
\* C8: when uninstall was attempted after the kernel start returned, the
\* boot function's result is the status of the kernel start, also when the
\* uninstall failed.
C8_UninstallFailureNotEscalated ==
    (Returned /\ Called("uninstall")) => ret = status

\* -------------------------------------------------------------------- C9
\* C9: the boot attempt is never aborted at measure_image or at
\* export_efi_variables: after either call main goes on to companion
\* collection.
C9_MeasurementBestEffort ==
    (Called("measure_image") /\ LastCall \in {"measure_image", "export_efi_variables"})
        => pc # "panic"

\* ------------------------------------------------------------------- C10
\* C10: when tpm_available answered that there is no TPM, measure_image is
\* not called.
C10_NoTpmNoMeasurement ==
    (Called("tpm_available") /\ ~tpm) => ~Called("measure_image")

\* ------------------------------------------------------------------- C11
\* C11: on both paths, when InitrdLoader::new fails the boot function returns
\* that failure at once: the kernel is never started and uninstall is never
\* called.
C11_InstallFailureIsHardError ==
    InstallFailed =>
        /\ Returned
        /\ ret \in InstallErrors
        /\ StartCalls = 0
        /\ ~Called("uninstall")
        /\ ~installed

\* The install failed on the fallback path, after a successful load_image.
C11_Witness ==
    /\ InstallFailed
    /\ Called("boot_linux_uefi")
    /\ Returned
    /\ ret \in InstallErrors

\* ------------------------------------------------------------------- C18
\* C18: a failure of configuration extraction, of reading the kernel or the
\* initrd file, or of the kernel load never ends main abnormally: main
\* returns the failure status; and main returns SUCCESS only when the kernel
\* start returned SUCCESS.
C18_FatalErrorsReturnStatus ==
    /\ pc = "panic" =>
          LastCall \notin {"EmbeddedConfiguration::new", "read_all(kernel)",
                           "read_all(initrd)", "Image::load"}
    /\ (Returned /\ ret = SUCCESS) => status = SUCCESS

\* ------------------------------------------------------------------- C19
\* The companions main has collected when the pack_cpio calls answered
\* `answers`, kind by kind in the order of CompanionKinds.
RECURSIVE ArchivesOf(_)
ArchivesOf(answers) ==
    IF answers = <<>> THEN <<>>
    ELSE LET n == Len(answers)
             front == ArchivesOf(SubSeq(answers, 1, n - 1))
         IN  IF answers[n] = "Some"
             THEN Append(front, [kind |-> CompanionKinds[n],
                                 data |-> Archive(CompanionKinds[n])])
             ELSE front

\* C19: the three kinds are attempted in the order credentials, global
\* credentials, system extensions; whatever one attempt answers (archive,
\* nothing, error) the others are still made; the collected list holds
\* exactly the kinds whose attempt gave an archive, in that order, once each.
C19_CollectionOrderedIndependent ==
    /\ initrds = ArchivesOf(packed)
    /\ Count("pack_cpio") = Len(packed)
    /\ pc = "pack_credentials" => Len(packed) = 0
    /\ pc = "pack_global_credentials" => Len(packed) = 1
    /\ pc = "pack_sysext" => Len(packed) = 2
    /\ (simple_filesystem = "Ok"
          /\ pc \notin {"pack_credentials", "pack_global_credentials", "pack_sysext"})
          => Len(packed) = 3
    /\ \A i, j \in 1 .. Len(initrds) : initrds[i].kind = initrds[j].kind => i = j

\* The first attempt failed, the second found nothing, the third gave an
\* archive: the list holds the system extension alone.
C19_Witness ==
    /\ packed = <<"Err", "None", "Some">>
    /\ Len(initrds) = 1
    /\ initrds[1].kind = "SystemExtension"

\* ------------------------------------------------------------------- C12
\* A section is present and holds what its field needs: a text that is
\* UTF-8 and fits a CString16, or a digest of exactly 32 bytes.
WellFormed(img, n) ==
    /\ img[n].present
    /\ IF n \in StringSections
       THEN \A i \in 1 .. Len(img[n].data) :
               img[n].data[i] \notin {InvalidUtf8, NonUcs2, NUL}
       ELSE Len(img[n].data) = HashLen

\* The sections the five fields of EmbeddedConfiguration are read from.
RequiredSections == {".cmdline", ".initrdp", ".kernelp", ".kernelh", ".initrdh"}

\* C12 as stated: EmbeddedConfiguration::new succeeds exactly when all six
\* sections, .osrel included, are present and well-formed, and otherwise
\* returns INVALID_PARAMETER.
C12_AllSixSectionsRequired ==
    extracted.kind # "NotRun" =>
        /\ extracted.kind = "Ok" <=> \A n \in SectionNames : WellFormed(image, n)
        /\ extracted.kind = "Err" => extracted.value = INVALID_PARAMETER

\* C12 amended: EmbeddedConfiguration::new returns INVALID_PARAMETER and no
\* configuration whenever one of .cmdline, .initrdp, .kernelp, .kernelh,
\* .initrdh is missing or malformed, and otherwise a configuration with all
\* five fields taken from those sections; .osrel is not read.
C12_AllOrNothing ==
    extracted.kind # "NotRun" =>
        /\ extracted.kind \in {"Ok", "Err"}
        /\ extracted.kind = "Ok" <=> \A n \in RequiredSections : WellFormed(image, n)
        /\ extracted.kind = "Err" => extracted.value = INVALID_PARAMETER
        /\ extracted.kind = "Ok" =>
              /\ extracted.value.kernel_filename = Append(image[".kernelp"].data, NUL)
              /\ extracted.value.initrd_filename = Append(image[".initrdp"].data, NUL)
              /\ extracted.value.cmdline = Append(image[".cmdline"].data, NUL)
              /\ extracted.value.kernel_hash = image[".kernelh"].data
              /\ extracted.value.initrd_hash = image[".initrdh"].data

\* Only the initrd digest is malformed (33 bytes): the whole extraction fails.
C12_Witness ==
    /\ extracted.kind = "Err"
    /\ \A n \in SectionNames \ {".initrdh"} : WellFormed(image, n)
    /\ Len(image[".initrdh"].data) = HashLen + 1

\* ------------------------------------------------- vocabulary of the tool
\* One of the two entry points has planned its sections.
Planned(mode) == plan.mode = mode /\ plan.sections # <<>>

\* The byte length of the file a planned section is filled from.
SizeOf(section) == Len(section.file_path.contents)

\* The entry point that ran got as far as its call of stub_offset.
ReachedStubOffset ==
    \/ plan.mode = "initrd-wrapper"
    \/ /\ plan.mode = "stub"
       /\ inputs.io # "tmp_fails"
       /\ strip_prefix(inputs.kernel_path, inputs.esp).kind = "Ok"
       /\ strip_prefix(inputs.initrd_path, inputs.esp).kind = "Ok"

\* The stub binary parses as a PE file but has no optional header or no
\* section.
MalformedStub ==
    /\ stub_binary.file = "pe"
    /\ ~stub_binary.optional_header \/ stub_binary.sections = <<>>

\* ------------------------------------------------------------------- C13
\* C13: what lanzaboote_image embeds is read back by EmbeddedConfiguration::new
\* as the configuration it was given: every section the extractor requires
\* is one the embedder planned, the extraction succeeds, and the two paths
\* and the command line it returns are those that were embedded.
C13_RoundTrip ==
    (plan.kind = "Ok" /\ plan.mode = "stub" /\ extracted.kind # "NotRun") =>
        /\ \A n \in RequiredSections :
              \E i \in 1 .. Len(plan.sections) : plan.sections[i].name = n
        /\ extracted.kind = "Ok"
        /\ extracted.value.kernel_filename =
              Append(esp_relative_path_string(inputs.esp, inputs.kernel_path).value, NUL)
        /\ extracted.value.initrd_filename =
              Append(esp_relative_path_string(inputs.esp, inputs.initrd_path).value, NUL)
        /\ extracted.value.cmdline = Append(join(inputs.kernel_cmdline, <<" ">>), NUL)

\* ------------------------------------------------------------------- C14
\* C14: the offsets lanzaboote_image computes are strictly increasing in the
\* order .osrel, .cmdline, .initrdp, .kernelp, whatever the stub and the
\* embedded values (an empty os-release file, an empty command line); no two
\* new sections overlap, and none overlaps a section of the stub.
C14_OffsetsStrictlyIncreasing ==
    Planned("stub") =>
        /\ \A i \in 1 .. Len(plan.sections) - 1 :
              /\ plan.sections[i].offset < plan.sections[i + 1].offset
              /\ plan.sections[i].offset + SizeOf(plan.sections[i])
                    <= plan.sections[i + 1].offset
        /\ \A i \in 1 .. Len(plan.sections), j \in 1 .. Len(stub_binary.sections) :
              LET new == plan.sections[i]
                  old == stub_binary.sections[j]
                  start == stub_binary.image_base + old.virtual_address
              IN  \/ new.offset + SizeOf(new) <= start
                  \/ start + old.virtual_size <= new.offset

\* ------------------------------------------------------------------- C15
\* C15: the first planned offset is the stub's last section's
\* virtual_address + virtual_size, plus image_base; each later offset is the
\* previous offset plus the byte size of the previous section's file; the
\* initrd wrapper plans exactly one section, .initrd, at that first offset.
C15_OffsetFormula ==
    plan.sections # <<>> =>
        LET last == stub_binary.sections[Len(stub_binary.sections)]
        IN  /\ plan.sections[1].offset =
                  last.virtual_address + last.virtual_size + stub_binary.image_base
            /\ \A i \in 2 .. Len(plan.sections) :
                  plan.sections[i].offset =
                      plan.sections[i - 1].offset + SizeOf(plan.sections[i - 1])
            /\ plan.mode = "initrd-wrapper" =>
                  /\ Len(plan.sections) = 1
                  /\ plan.sections[1].name = ".initrd"

\* ------------------------------------------------------------------- C16
\* C16: for a stub binary without optional header or with an empty section
\* table, stub_offset, and with it lanzaboote_image and wrap_initrd, returns
\* an error to its caller and plans no section; it does not panic.
C16_MalformedStubIsError ==
    (MalformedStub /\ ReachedStubOffset) =>
        /\ plan.kind = "Err"
        /\ plan.sections = <<>>

\* ---------------------------------------------- vocabulary of the policy
\* The policy has decided.
PolicyDecided == verdict.kind = "Ok"

\* The three store paths of the parameters exist.
AllPathsExist ==
    /\ parameters.lanzaboote_store_path \in store
    /\ parameters.kernel_store_path \in store
    /\ parameters.initrd_store_path \in store

\* Every item of the command line is a member of the allow-list.
AllItemsListed ==
    \A i \in 1 .. Len(parameters.kernel_cmdline) :
        parameters.kernel_cmdline[i] \in policy.data

\* ------------------------------------------------------------------- C17
\* C17: trusted_stub_parameters returns true exactly when the three store
\* paths exist and, with an allow-list configured, every command line item
\* is a member of it; one missing path gives false whatever the rest, and
\* without allow-list the command line is not restricted.
C17_PolicyDecision ==
    PolicyDecided =>
        /\ verdict.value <=> (AllPathsExist /\ (policy.present => AllItemsListed))
        /\ ~AllPathsExist => ~verdict.value
        /\ (~policy.present /\ AllPathsExist) => verdict.value

\* The initrd store path alone is missing, the command line is fully
\* allow-listed: rejected.
C17_Witness ==
    /\ PolicyDecided
    /\ parameters.lanzaboote_store_path \in store
    /\ parameters.kernel_store_path \in store
    /\ parameters.initrd_store_path \notin store
    /\ policy.present
    /\ parameters.kernel_cmdline # <<>>
    /\ AllItemsListed
    /\ ~verdict.value

\* ------------------------------------------------------------------- C20
\* C20 as stated: with an allow-list that is present but empty,
\* trusted_stub_parameters returns false for every StubParameters, also for
\* one without command line items whose three store paths exist.
C20_EmptyAllowListRejectsEverything ==
    (PolicyDecided /\ policy.present /\ policy.data = {}) => ~verdict.value

\* C20 amended: with an allow-list that is present but empty,
\* trusted_stub_parameters returns false for every StubParameters with at
\* least one command line item (or a missing store path), and true for one
\* without items whose three store paths exist.
C20_EmptyAllowListRejectsEveryItem ==
    (PolicyDecided /\ policy.present /\ policy.data = {}) =>
        /\ parameters.kernel_cmdline # <<>> => ~verdict.value
        /\ verdict.value <=> (AllPathsExist /\ parameters.kernel_cmdline = <<>>)

\* An empty allow-list, existing store paths and one command line item:
\* rejected.
C20_Witness ==
    /\ PolicyDecided
    /\ policy.present /\ policy.data = {}
    /\ AllPathsExist
    /\ Len(parameters.kernel_cmdline) = 1
    /\ ~verdict.value

\* ------------------------------------------------------------------- C21
\* C21: measure_image is called at most once in a boot; in every execution
\* of main that reaches boot_linux_unchecked or boot_linux_uefi it has been
\* called exactly once, after the hash comparison, before the collection of
\* the companions and before the boot decision, and it is not called again
\* inside the boot function.
C21_MeasuredOnceBeforeDecision ==
    /\ Count("measure_image") <= 1
    /\ Called("measure_image") =>
          (Called("Sha256::digest")
             /\ First("Sha256::digest") < First("measure_image"))
    /\ Called("get_image_file_system") =>
          (Called("measure_image")
             /\ First("measure_image") < First("get_image_file_system"))
    /\ Called("pack_cpio") =>
          (Called("measure_image") /\ First("measure_image") < First("pack_cpio"))
    /\ Decided =>
          /\ Count("measure_image") = 1
          /\ First("measure_image")
                < First("boot_linux_unchecked") + First("boot_linux_uefi")
    /\ pc \in {"returned", "panic"} => Count("measure_image") <= 1

\* A boot that measured once, took the fallback path and came back from the
\* kernel: still one measurement.
C21_Witness ==
    /\ Returned
    /\ Called("boot_linux_uefi")
    /\ Called("start_image")
    /\ Count("measure_image") = 1
    /\ First("measure_image") < First("boot_linux_uefi")

\* ------------------------------------------------------------------- C22
\* The firmware's load_image has rejected the kernel on the fallback path.
LoadImageRejected ==
    /\ Called("load_image")
    /\ ret \in LoadImageErrors

\* C22: on both paths the kernel is started only while the initrd device is
\* installed, after a successful InitrdLoader::new and before uninstall;
\* whenever the install succeeded, uninstall is attempted exactly once, after
\* the start call has returned; on the fallback path a kernel that
\* load_image rejects is never started, the device is never installed, and
\* boot_linux_uefi returns the status of load_image.
C22_KernelStartGuarded ==
    /\ pc \in {"U_start", "F_start"} =>
          (installed /\ EverInstalled /\ ~Called("uninstall"))
    /\ StartCalls > 0 =>
          /\ EverInstalled
          /\ First("InitrdLoader::new") < FirstStart
          /\ Called("uninstall") => FirstStart < First("uninstall")
    /\ (EverInstalled /\ Returned) =>
          /\ Count("uninstall") = 1
          /\ StartCalls = 1
          /\ FirstStart < First("uninstall")
    /\ EverInstalled => Count("uninstall") <= 1
    /\ LoadImageRejected =>
          /\ Returned
          /\ LastCall = "load_image"
          /\ StartCalls = 0
          /\ ~Called("InitrdLoader::new")
          /\ ~EverInstalled /\ ~installed
          /\ Count("uninstall") = 0
    /\ (Called("load_image") /\ ~Called("open_protocol_exclusive") /\ Returned)
          => ret \in LoadImageErrors

\* The firmware rejected the kernel with a security violation: nothing was
\* installed or started, and the status went back to the caller.
C22_Witness ==
    /\ LoadImageRejected
    /\ ret = "SECURITY_VIOLATION"
    /\ StartCalls = 0
    /\ ~EverInstalled
====
